---- MODULE Spec2Model ----
(***************************************************************************)
(* Story completion state machine of saga-ai-backend.                      *)
(*                                                                         *)
(* One story, after its script webhook has been handled on the no-anchor   *)
(* path (status script_completed, music generation and audio generation    *)
(* started).  The Job Registry is the Story row, the Image rows (kept as   *)
(* a count per status, which is all the Evaluator queries) and the Music   *)
(* row.  Completion callbacks update their row and then invoke             *)
(* StoryCompletionService.checkStoryCompletion; every await of the         *)
(* Evaluator is a separate step, so callbacks interleave with it.          *)
(*                                                                         *)
(* Each image receives one completion webhook.  The four count queries of  *)
(* checkImagesCompletion are read as one snapshot of the Image table.      *)
(***************************************************************************)
EXTENDS Integers, FiniteSets, Sequences, TLC

\* ---------------------------------------------------------------- bounds
MaxImages  == 10   \* shots dispatched for the story
MaxPending == 1    \* completion callbacks between row update and check
MaxCalls   == 2    \* evaluations that can be in flight at once
MaxTriggers == 2   \* phase triggers after which no further evaluation starts
MaxScenes  == 11   \* scenes of the script handed to processScenesWithConcurrency
MaxShots   == 2    \* shots followed one by one through their webhooks
MaxDeliveries == 2 \* webhook events sent for one shot
MaxAnchors == 3    \* characters and settings of the script
MaxAppearances == 2 \* appearances of an anchor entity in the script
MaxSlots   == 2    \* invocations of checkStoryCompletion past the guard at once

\* ------------------------------------------------------------- constants
\* MIN_IMAGE_SUCCESS_RATE = 0.90, kept in percent
MIN_IMAGE_SUCCESS_RATE == 90

NON_TERMINAL_STATUSES == {"queued", "pending", "generating"}

TERMINAL_FAILED_STATUSES == {"failed", "terminal_failed"}

\* every status an Image row can hold
ImageStatuses ==
    {"queued", "pending", "generating", "processing",
     "completed", "failed", "terminal_failed"}

\* SpeechService.MAX_CONCURRENT_CALLS
MAX_CONCURRENT_CALLS == 10

\* where a scene unit of processScenesWithConcurrency stands, with the state
\* of its AudioSegment row: polling for a slot; admitted, before the row is
\* created; row pending, audio being generated and stored; row completed,
\* image shots and mixing check; in the catch block (no row, row pending, row
\* completed); settled (row completed, row failed, no row); promise rejected;
\* and, row completed, inside checkAndTriggerMixing: at its guard, holding
\* the guard before and after findMany, mixing, leaving
UnitPositions ==
    {"waiting", "create", "synth", "shots",
     "catchNoRow", "catchPending", "catchCompleted",
     "doneCompleted", "doneFailed", "doneNoRow", "rejected",
     "mixCheck", "mixFind", "mixSkip", "mixStart", "mixing", "mixEnd"}

Shots == 1..MaxShots

Anchors == 1..MaxAnchors

\* appearances >= 2: the entity needs a reference image
ANCHOR_MIN_APPEARANCES == 2

STORY == "s1"

Calls == 1..MaxCalls

\* the stories of the registry
Stories == {"s1", "s2"}

\* an identifier no Story row exists for
UnknownId == "s0"

\* what checkStoryCompletion can be called with
StoryIds == Stories \cup {UnknownId}

Slots == 1..MaxSlots

\* who invoked checkStoryCompletion
Callers == {"image", "music", "mix", "audioFinished"}

VARIABLES
    storyStatus,      \* Story.status
    storyAudioUrl,    \* Story.audio_url is set
    images,           \* number of Image rows per status
    music,            \* the Music row: [status, audio_url]
    audioPhase,       \* progress of generateAudioForStory and of the mixing
    completionChecks, \* StoryCompletionService.completionChecks
    pendingChecks,    \* callbacks that updated their row, about to invoke
    call,             \* the evaluations in flight
    triggerCount,     \* invocations of VideoService.generateVideo
    markCount,        \* status writes of markStoryCompleted
    videoJobs,        \* generateVideo runs in flight
    cloudflareId,     \* Story.cloudflare_id: none, uploaded, ready (webhook seen)
    side              \* the handlers around the Evaluator: limiter, shot, anchor,
                      \* and the Evaluator over several stories: entry

\* the registry and the Evaluator
evalVars == <<storyStatus, storyAudioUrl, images, music, audioPhase,
              completionChecks, pendingChecks, call, triggerCount, markCount,
              videoJobs, cloudflareId>>

\* what the completion state machine leaves alone
sideVars == <<side>>

vars == <<evalVars, sideVars>>

\* no processScenesWithConcurrency under way
LimiterAtRest ==
    [units |-> <<>>, activeRequests |-> 0, aggregate |-> "idle",
     mixingChecks |-> {}, story |-> "script_completed", mixed |-> FALSE]

\* no shot requested yet
ShotsAtRest == <<>>

\* handleScriptCompletion has stored the script and no Anchor row yet
AnchorsAtRest ==
    [script |-> "storeAnchors", gen |-> "idle", audioStarts |-> 0,
     rows |-> <<>>]

\* no Story row yet and no checkStoryCompletion under way
EntryAtRest == [checks |-> {}, rows |-> <<>>, evals |-> <<>>]

\* the handlers around the Evaluator; side is empty until one of them runs
Side ==
    IF DOMAIN side = {}
    THEN [limiter |-> LimiterAtRest, shot |-> ShotsAtRest,
          anchor |-> AnchorsAtRest, entry |-> EntryAtRest]
    ELSE side

\* processScenesWithConcurrency: units, activeRequests, aggregate
limiter == Side.limiter

\* per shot requested: job, row, response, hook, sent, handler
shot == Side.shot

\* script, gen, audioStarts and per Anchor row: appearances, status, hook,
\* handler
anchor == Side.anchor

\* the Evaluator over several stories: checks (completionChecks), rows (the
\* Story rows), evals (the invocations past the guard)
entry == Side.entry

\* number of scene units per position; scenePromises is empty before the call
units ==
    IF limiter.aggregate = "idle" THEN [p \in UnitPositions |-> 0]
    ELSE limiter.units

\* processScenesWithConcurrency.activeRequests
activeRequests == limiter.activeRequests

\* processScenesWithConcurrency: idle, running, returned
aggregate == limiter.aggregate

\* a shot that generateImageForShot has not been called for
NoShot ==
    [job |-> "none", row |-> "none", response |-> FALSE,
     hook |-> "none", sent |-> 0, handler |-> "idle"]

\* what is known of shot i
Shot(i) == IF i \in DOMAIN shot THEN shot[i] ELSE NoShot

\* Image.status of shot i, or none before the row exists
shotRow(i) == Shot(i).row

\* Anchor.appearances per anchor
anchorAppearances == [a \in DOMAIN anchor.rows |-> anchor.rows[a].appearances]

\* Anchor.status per anchor
anchorStatus == [a \in DOMAIN anchor.rows |-> anchor.rows[a].status]

\* calls of generateAudioForStory
audioStarts == anchor.audioStarts

\* ---------------------------------------------------------- registry reads
RECURSIVE CountIn(_, _)
\* prisma.image.count({ where: { status: { in: S } } })
CountIn(imgs, S) ==
    IF S = {} THEN 0
    ELSE LET s == CHOOSE x \in S : TRUE
         IN imgs[s] + CountIn(imgs, S \ {s})

NotReadyResult ==
    [acceptable |-> FALSE, total |-> 0, completed |-> 0, failed |-> 0,
     missing |-> 0, nonTerminal |-> 0, allAttempted |-> FALSE]

\* checkImagesCompletion with the threshold compared by > instead of >=
checkImagesCompletion_Strict(imgs, dbOk) ==
    LET total       == CountIn(imgs, ImageStatuses)
        completed   == CountIn(imgs, {"completed"})
        nonTerminal == CountIn(imgs, NON_TERMINAL_STATUSES)
    IN  IF ~dbOk \/ total = 0 THEN NotReadyResult
        ELSE [acceptable   |-> nonTerminal = 0
                                /\ completed * 100 > MIN_IMAGE_SUCCESS_RATE * total,
              total        |-> total,
              completed    |-> completed,
              failed       |-> CountIn(imgs, TERMINAL_FAILED_STATUSES),
              missing      |-> total - completed,
              nonTerminal  |-> nonTerminal,
              allAttempted |-> nonTerminal = 0]

\* checkImagesCompletion without the guard for a story with no Image row
checkImagesCompletion_NoZeroGuard(imgs, dbOk) ==
    LET total       == CountIn(imgs, ImageStatuses)
        completed   == CountIn(imgs, {"completed"})
        nonTerminal == CountIn(imgs, NON_TERMINAL_STATUSES)
    IN  IF ~dbOk THEN NotReadyResult
        ELSE [acceptable   |-> nonTerminal = 0
                                /\ completed * 100 >= MIN_IMAGE_SUCCESS_RATE * total,
              total        |-> total,
              completed    |-> completed,
              failed       |-> CountIn(imgs, TERMINAL_FAILED_STATUSES),
              missing      |-> total - completed,
              nonTerminal  |-> nonTerminal,
              allAttempted |-> nonTerminal = 0]

\* checkImagesCompletion; dbOk = FALSE is a rejected count query
checkImagesCompletion(imgs, dbOk) ==
    LET total       == CountIn(imgs, ImageStatuses)
        completed   == CountIn(imgs, {"completed"})
        failed      == CountIn(imgs, TERMINAL_FAILED_STATUSES)
        nonTerminal == CountIn(imgs, NON_TERMINAL_STATUSES)
        allAttempted == (nonTerminal = 0)
    IN  IF ~dbOk \/ total = 0 THEN NotReadyResult
        ELSE [acceptable   |-> allAttempted
                                /\ completed * 100 >= MIN_IMAGE_SUCCESS_RATE * total,
              total        |-> total,
              completed    |-> completed,
              failed       |-> failed,
              missing      |-> total - completed,
              nonTerminal  |-> nonTerminal,
              allAttempted |-> allAttempted]

\* checkAudioCompletion without the test of audio_url
checkAudioCompletion_NoUrl(url, status, dbOk) ==
    dbOk /\ status = "audio_completed"

\* checkAudioCompletion
checkAudioCompletion(url, status, dbOk) ==
    dbOk /\ url /\ status = "audio_completed"

\* checkMusicCompletion
checkMusicCompletion(m, dbOk) ==
    dbOk /\ m.status = "completed" /\ m.audio_url

\* checkStoryCompletion without the dedupe guard
GuardHeld_Never(checks) == FALSE

\* the dedupe guard of checkStoryCompletion
GuardHeld(checks) == STORY \in checks

\* the already-complete short-circuit of checkStoryCompletion
AlreadyCompleted(status) == status = "completed"

\* the status markStoryCompleted writes
ReadyMarker == "audio_completed"

\* ------------------------------------------------------------------ state
IdleCall ==
    [pc |-> "idle", caller |-> "none", outcome |-> "none",
     wrote |-> FALSE, fired |-> FALSE,
     sawAudio |-> FALSE, sawMusic |-> FALSE, sawInFlight |-> FALSE,
     afterMark |-> FALSE, rejected |-> FALSE]

NoMusic == [status |-> "none", audio_url |-> FALSE]

\* the story after handleScriptCompletion, nothing completed yet
EvaluatorAtStart ==
    /\ storyStatus = "script_completed"
    /\ storyAudioUrl = FALSE
    /\ images = [s \in ImageStatuses |-> 0]
    /\ music = NoMusic
    /\ audioPhase = "generating"
    /\ completionChecks = {}
    /\ pendingChecks = [k \in Callers |-> 0]
    /\ call = [c \in Calls |-> IdleCall]
    /\ triggerCount = 0
    /\ markCount = 0
    /\ videoJobs = 0
    /\ cloudflareId = "none"

Init ==
    /\ EvaluatorAtStart
    /\ side = <<>>

\* ------------------------------------------------------------- helpers
Pending == pendingChecks["image"] + pendingChecks["music"]
           + pendingChecks["mix"] + pendingChecks["audioFinished"]

Enqueue(k) == pendingChecks' = [pendingChecks EXCEPT ![k] = @ + 1]

InFlightCalls == {c \in Calls : call[c].pc # "idle"}

FreeCalls == {c \in Calls : call[c].pc = "idle"}

\* statuses from which no further automatic transition of an Image occurs
TerminalStatuses == {"completed"} \cup TERMINAL_FAILED_STATUSES

\* some dispatched image has not reached a terminal status
ImagesInFlight(imgs) == CountIn(imgs, ImageStatuses \ TerminalStatuses) > 0

Exit(c, how) == call' = [call EXCEPT ![c].pc = "finally", ![c].outcome = how]

\* ------------------------------------------------ completion callbacks
\* ImageService.generateImageForShot: the request succeeded, the row is created
generateImageForShot ==
    /\ audioPhase # "finished"
    /\ CountIn(images, ImageStatuses) < MaxImages
    /\ images' = [images EXCEPT !["processing"] = @ + 1]
    /\ UNCHANGED <<storyStatus, storyAudioUrl, music, audioPhase,
                   completionChecks, pendingChecks, call, triggerCount,
                   markCount, videoJobs, cloudflareId>>
    /\ UNCHANGED sideVars

\* handleWebhook -> handleImageCompletion: the image is processed and stored
handleImageCompletion ==
    /\ images["processing"] > 0
    /\ Pending < MaxPending
    /\ images' = [images EXCEPT !["processing"] = @ - 1, !["completed"] = @ + 1]
    /\ Enqueue("image")
    /\ UNCHANGED <<storyStatus, storyAudioUrl, music, audioPhase,
                   completionChecks, call, triggerCount, markCount,
                   videoJobs, cloudflareId>>
    /\ UNCHANGED sideVars

\* handleImageCompletion: extraction or upload failed; the row is marked
\* failed and the error is rethrown past the call of checkStoryCompletion
handleImageCompletionError ==
    /\ images["processing"] > 0
    /\ images' = [images EXCEPT !["processing"] = @ - 1, !["failed"] = @ + 1]
    /\ UNCHANGED <<storyStatus, storyAudioUrl, music, audioPhase,
                   completionChecks, pendingChecks, call, triggerCount,
                   markCount, videoJobs, cloudflareId>>
    /\ UNCHANGED sideVars

\* MusicService.generateMusic succeeded: the row is created completed
generateMusic ==
    /\ music = NoMusic
    /\ Pending < MaxPending
    /\ music' = [status |-> "completed", audio_url |-> TRUE]
    /\ Enqueue("music")
    /\ UNCHANGED <<storyStatus, storyAudioUrl, images, audioPhase,
                   completionChecks, call, triggerCount, markCount,
                   videoJobs, cloudflareId>>
    /\ UNCHANGED sideVars

\* SpeechService.checkAndTriggerMixing: every segment is completed
checkAndTriggerMixing ==
    /\ audioPhase = "generating"
    /\ storyStatus' = "audio_ready"
    /\ audioPhase' = "mixing"
    /\ UNCHANGED <<storyAudioUrl, images, music, completionChecks,
                   pendingChecks, call, triggerCount, markCount,
                   videoJobs, cloudflareId>>
    /\ UNCHANGED sideVars

\* SpeechService.mixAudioSegments: the final audio is stored
mixAudioSegments ==
    /\ audioPhase = "mixing"
    /\ Pending < MaxPending
    /\ storyAudioUrl' = TRUE
    /\ storyStatus' = "audio_completed"
    /\ audioPhase' = "mixed"
    /\ Enqueue("mix")
    /\ UNCHANGED <<images, music, completionChecks, call, triggerCount,
                   markCount, videoJobs, cloudflareId>>
    /\ UNCHANGED sideVars

\* mixAudioSegments, catch: the mixing failed, or the awaited
\* checkStoryCompletion rejected
mixAudioSegmentsError ==
    /\ audioPhase \in {"mixing", "mixCatch"}
    /\ storyStatus' = "audio_failed"
    /\ audioPhase' = "mixFailed"
    /\ UNCHANGED <<storyAudioUrl, images, music, completionChecks,
                   pendingChecks, call, triggerCount, markCount,
                   videoJobs, cloudflareId>>
    /\ UNCHANGED sideVars

\* ResponseService.handleScriptCompletion, continuation of
\* generateAudioForStory: every scene unit has settled
audioGenerationFinished ==
    /\ audioPhase \in {"generating", "mixed", "mixFailed"}
    /\ pendingChecks["mix"] = 0
    /\ \A c \in Calls : call[c].caller # "mix"
    /\ Pending < MaxPending
    /\ storyStatus' = "audio_completed"
    /\ audioPhase' = "finished"
    /\ Enqueue("audioFinished")
    /\ UNCHANGED <<storyAudioUrl, images, music, completionChecks, call,
                   triggerCount, markCount, videoJobs, cloudflareId>>
    /\ UNCHANGED sideVars

\* VideoService.generateVideo succeeded
generateVideo ==
    /\ videoJobs > 0
    /\ videoJobs' = videoJobs - 1
    /\ storyStatus' = "do_completed"
    /\ \E uploaded \in BOOLEAN :
         cloudflareId' = IF uploaded THEN "uploaded" ELSE cloudflareId
    /\ UNCHANGED <<storyAudioUrl, images, music, audioPhase,
                   completionChecks, pendingChecks, call, triggerCount,
                   markCount>>
    /\ UNCHANGED sideVars

\* generateVideo rejected and the ready marker is taken back
generateVideoError_RollBack ==
    /\ videoJobs > 0
    /\ videoJobs' = videoJobs - 1
    /\ storyStatus' = "script_completed"
    /\ UNCHANGED <<storyAudioUrl, images, music,
                   audioPhase, completionChecks, pendingChecks, call,
                   triggerCount, markCount, cloudflareId>>
    /\ UNCHANGED sideVars

\* VideoService.generateVideo rejected; triggerNextPhase only logs it
generateVideoError ==
    /\ videoJobs > 0
    /\ videoJobs' = videoJobs - 1
    /\ UNCHANGED <<storyStatus, storyAudioUrl, images, music,
                   audioPhase, completionChecks, pendingChecks, call,
                   triggerCount, markCount, cloudflareId>>
    /\ UNCHANGED sideVars

\* handleCloudflareVideoReady marking the story without finding it by the
\* Cloudflare id of the webhook
handleCloudflareVideoReady_Unmatched ==
    /\ cloudflareId # "ready"
    /\ cloudflareId' = "ready"
    /\ storyStatus' = "completed"
    /\ UNCHANGED <<storyAudioUrl, images, music, audioPhase,
                   completionChecks, pendingChecks, call, triggerCount,
                   markCount, videoJobs>>
    /\ UNCHANGED sideVars

\* ResponseService.handleCloudflareVideoReady
handleCloudflareVideoReady ==
    /\ cloudflareId = "uploaded"
    /\ cloudflareId' = "ready"
    /\ storyStatus' = "completed"
    /\ UNCHANGED <<storyAudioUrl, images, music, audioPhase,
                   completionChecks, pendingChecks, call, triggerCount,
                   markCount, videoJobs>>
    /\ UNCHANGED sideVars

\* ------------------------------------------------- the Completion Evaluator
\* checkStoryCompletion, entry: the dedupe guard.  A call that finds the
\* story id in the set returns at once; otherwise it adds the id and starts
CheckStoryCompletion(k) ==
    /\ pendingChecks[k] > 0
    /\ pendingChecks' = [pendingChecks EXCEPT ![k] = @ - 1]
    /\ IF GuardHeld(completionChecks)
       THEN /\ call' = [c \in Calls |->
                          IF call[c].pc = "idle" THEN call[c]
                          ELSE [call[c] EXCEPT !.rejected = TRUE]]
            /\ UNCHANGED completionChecks
       ELSE /\ FreeCalls # {}
            /\ triggerCount < MaxTriggers
            /\ LET c == CHOOSE x \in FreeCalls : \A y \in FreeCalls : x <= y
               IN call' = [call EXCEPT ![c] =
                             [IdleCall EXCEPT !.pc = "findStory",
                                              !.caller = k,
                                              !.afterMark = (markCount > 0)]]
            /\ completionChecks' = completionChecks \cup {STORY}
    /\ UNCHANGED <<storyStatus, storyAudioUrl, images, music,
                   audioPhase, triggerCount, markCount, videoJobs,
                   cloudflareId>>
    /\ UNCHANGED sideVars

\* prisma.story.findUnique and the already-completed short-circuit
EvalFindStory(c, dbOk) ==
    /\ call[c].pc = "findStory"
    /\ IF ~dbOk THEN Exit(c, "threw")
       ELSE IF AlreadyCompleted(storyStatus) THEN Exit(c, "alreadyCompleted")
       ELSE call' = [call EXCEPT ![c].pc = "checkAudio"]
    /\ UNCHANGED <<storyStatus, storyAudioUrl, images, music,
                   audioPhase, completionChecks, pendingChecks,
                   triggerCount, markCount, videoJobs, cloudflareId>>
    /\ UNCHANGED sideVars

\* Check 1: audio
EvalCheckAudio(c, dbOk) ==
    /\ call[c].pc = "checkAudio"
    /\ IF checkAudioCompletion(storyAudioUrl, storyStatus, dbOk)
       THEN call' = [call EXCEPT
                       ![c].pc = "checkImages",
                       ![c].sawAudio = storyAudioUrl /\ storyStatus = "audio_completed"]
       ELSE Exit(c, "audioNotReady")
    /\ UNCHANGED <<storyStatus, storyAudioUrl, images, music,
                   audioPhase, completionChecks, pendingChecks,
                   triggerCount, markCount, videoJobs, cloudflareId>>
    /\ UNCHANGED sideVars

\* Check 2 giving up on the story when the images are below the threshold
EvalCheckImages_GiveUp(c, dbOk) ==
    /\ call[c].pc = "checkImages"
    /\ LET imagesResult == checkImagesCompletion(images, dbOk)
       IN  IF ~imagesResult.allAttempted
           THEN Exit(c, "imagesInProgress") /\ UNCHANGED storyStatus
           ELSE IF ~imagesResult.acceptable
           THEN Exit(c, "imagesBelowThreshold") /\ storyStatus' = "audio_failed"
           ELSE /\ call' = [call EXCEPT
                              ![c].pc = "checkMusic",
                              ![c].sawInFlight = ImagesInFlight(images)]
                /\ UNCHANGED storyStatus
    /\ UNCHANGED <<storyAudioUrl, images, music,
                   audioPhase, completionChecks, pendingChecks,
                   triggerCount, markCount, videoJobs, cloudflareId>>
    /\ UNCHANGED sideVars

\* Check 2: images, all attempted and then the success threshold
EvalCheckImages(c, dbOk) ==
    /\ call[c].pc = "checkImages"
    /\ LET imagesResult == checkImagesCompletion(images, dbOk)
       IN  IF ~imagesResult.allAttempted THEN Exit(c, "imagesInProgress")
           ELSE IF ~imagesResult.acceptable THEN Exit(c, "imagesBelowThreshold")
           ELSE call' = [call EXCEPT
                           ![c].pc = "checkMusic",
                           ![c].sawInFlight = ImagesInFlight(images)]
    /\ UNCHANGED <<storyStatus, storyAudioUrl, images, music,
                   audioPhase, completionChecks, pendingChecks,
                   triggerCount, markCount, videoJobs, cloudflareId>>
    /\ UNCHANGED sideVars

\* Check 3: music
EvalCheckMusic(c, dbOk) ==
    /\ call[c].pc = "checkMusic"
    /\ IF checkMusicCompletion(music, dbOk)
       THEN call' = [call EXCEPT
                       ![c].pc = "mark",
                       ![c].sawMusic = music.status = "completed" /\ music.audio_url]
       ELSE Exit(c, "musicNotReady")
    /\ UNCHANGED <<storyStatus, storyAudioUrl, images, music,
                   audioPhase, completionChecks, pendingChecks,
                   triggerCount, markCount, videoJobs, cloudflareId>>
    /\ UNCHANGED sideVars

\* markStoryCompleted swallowing the error of the update
markStoryCompleted_Swallow(c, dbOk) ==
    /\ call[c].pc = "mark"
    /\ IF dbOk
       THEN /\ storyStatus' = ReadyMarker
            /\ markCount' = markCount + 1
            /\ call' = [call EXCEPT ![c].pc = "trigger", ![c].wrote = TRUE]
       ELSE /\ call' = [call EXCEPT ![c].pc = "trigger"]
            /\ UNCHANGED <<storyStatus, markCount>>
    /\ UNCHANGED <<storyAudioUrl, images, music, audioPhase,
                   completionChecks, pendingChecks, triggerCount,
                   videoJobs, cloudflareId>>
    /\ UNCHANGED sideVars

\* markStoryCompleted: the update, or its error rethrown
markStoryCompleted(c, dbOk) ==
    /\ call[c].pc = "mark"
    /\ IF dbOk
       THEN /\ storyStatus' = ReadyMarker
            /\ markCount' = markCount + 1
            /\ call' = [call EXCEPT ![c].pc = "trigger", ![c].wrote = TRUE]
       ELSE /\ Exit(c, "threw")
            /\ UNCHANGED <<storyStatus, markCount>>
    /\ UNCHANGED <<storyAudioUrl, images, music, audioPhase,
                   completionChecks, pendingChecks, triggerCount,
                   videoJobs, cloudflareId>>
    /\ UNCHANGED sideVars

\* triggerNextPhase: generateVideo is started and not awaited
triggerNextPhase(c) ==
    /\ call[c].pc = "trigger"
    /\ triggerCount' = triggerCount + 1
    /\ videoJobs' = videoJobs + 1
    /\ call' = [call EXCEPT ![c].pc = "finally", ![c].outcome = "completed",
                            ![c].fired = TRUE]
    /\ UNCHANGED <<storyStatus, storyAudioUrl, images, music,
                   audioPhase, completionChecks, pendingChecks,
                   markCount, cloudflareId>>
    /\ UNCHANGED sideVars

\* catch (rethrow) and finally: the guard is released and the call returns
\* or rejects to its caller; mixAudioSegments awaits it inside its try
EvalFinally(c) ==
    /\ call[c].pc = "finally"
    /\ completionChecks' = completionChecks \ {STORY}
    /\ audioPhase' = IF call[c].outcome = "threw" /\ call[c].caller = "mix"
                     THEN "mixCatch" ELSE audioPhase
    /\ call' = [call EXCEPT ![c] = IdleCall]
    /\ UNCHANGED <<storyStatus, storyAudioUrl, images, music,
                   pendingChecks, triggerCount, markCount, videoJobs,
                   cloudflareId>>
    /\ UNCHANGED sideVars

\* ------------------------------------------------- the Concurrency Limiter
\* the units once one of them has left position p for position q
MoveUnit(p, q) == [units EXCEPT ![p] = @ - 1, ![q] = @ + 1]

ActivePositions ==
    {"create", "synth", "shots", "catchNoRow", "catchPending", "catchCompleted",
     "mixCheck", "mixFind", "mixSkip", "mixStart", "mixing", "mixEnd"}

SettledPositions == {"doneCompleted", "doneFailed", "doneNoRow", "rejected"}

RECURSIVE UnitsIn(_, _)
\* number of units whose position is in P
UnitsIn(u, P) ==
    IF P = {} THEN 0
    ELSE LET p == CHOOSE x \in P : TRUE
         IN u[p] + UnitsIn(u, P \ {p})

\* where the catch block of processScene leaves the unit once
\* updateSceneStatus(failed) has resolved: updateMany matches the row if any
AfterCatch(p) ==
    IF p = "catchNoRow" THEN "doneNoRow" ELSE "doneFailed"

\* processScenesWithConcurrency is called: scenes.map(processScene)
processScenesWithConcurrency ==
    /\ aggregate = "idle"
    /\ side' = [Side EXCEPT !.limiter =
                  [limiter EXCEPT
                      !.aggregate = "running",
                      !.units = [p \in UnitPositions |->
                                   IF p = "waiting" THEN MaxScenes ELSE 0]]]
    /\ UNCHANGED evalVars

\* processScene admitting a unit whatever the number of active requests
processScene_NoWait ==
    /\ aggregate = "running"
    /\ units["waiting"] > 0
    /\ side' = [Side EXCEPT !.limiter =
                  [limiter EXCEPT !.activeRequests = @ + 1,
                                  !.units = MoveUnit("waiting", "create")]]
    /\ UNCHANGED evalVars

\* processScene: the while loop is left and activeRequests incremented,
\* with no await in between
processScene ==
    /\ aggregate = "running"
    /\ units["waiting"] > 0
    /\ ~(activeRequests >= MAX_CONCURRENT_CALLS)
    /\ side' = [Side EXCEPT !.limiter =
                  [limiter EXCEPT !.activeRequests = @ + 1,
                                  !.units = MoveUnit("waiting", "create")]]
    /\ UNCHANGED evalVars

\* generateAudioForScene up to audioSegment.create; ok = FALSE: the API key
\* is not configured or the create is rejected
generateAudioForSceneCreate(ok) ==
    /\ units["create"] > 0
    /\ side' = [Side EXCEPT !.limiter =
                  [limiter EXCEPT !.units =
                      MoveUnit("create", IF ok THEN "synth" ELSE "catchNoRow")]]
    /\ UNCHANGED evalVars

\* generateAudioForScene from the ElevenLabs call to updateSceneWithAudio
generateAudioForSceneSynth(ok) ==
    /\ units["synth"] > 0
    /\ side' = [Side EXCEPT !.limiter =
                  [limiter EXCEPT !.units =
                      MoveUnit("synth", IF ok THEN "shots" ELSE "catchPending")]]
    /\ UNCHANGED evalVars

\* generateAudioForScene, generateDynamicImageShots and checkAndTriggerMixing
\* taken as one step, the mixing left out; on success processScene runs its
\* finally block and is fulfilled
generateAudioForSceneShots(ok) ==
    /\ units["shots"] > 0
    /\ side' = [Side EXCEPT !.limiter =
                  IF ok
                  THEN [limiter EXCEPT
                          !.units = MoveUnit("shots", "doneCompleted"),
                          !.activeRequests = @ - 1]
                  ELSE [limiter EXCEPT
                          !.units = MoveUnit("shots", "catchCompleted")]]
    /\ UNCHANGED evalVars

\* the catch and finally blocks of processScene with the slot released only
\* when the status update went through
processSceneCatch_KeepSlot(p, dbOk) ==
    /\ p \in {"catchNoRow", "catchPending", "catchCompleted"}
    /\ units[p] > 0
    /\ side' = [Side EXCEPT !.limiter =
                  [limiter EXCEPT
                      !.units = MoveUnit(p, IF dbOk THEN AfterCatch(p)
                                            ELSE "rejected"),
                      !.activeRequests = IF dbOk THEN @ - 1 ELSE @]]
    /\ UNCHANGED evalVars

\* the catch and finally blocks of processScene: updateSceneStatus(failed)
\* resolves, or rejects (dbOk = FALSE) and the promise of the unit rejects;
\* the slot is released either way
processSceneCatch(p, dbOk) ==
    /\ p \in {"catchNoRow", "catchPending", "catchCompleted"}
    /\ units[p] > 0
    /\ side' = [Side EXCEPT !.limiter =
                  [limiter EXCEPT
                      !.units = MoveUnit(p, IF dbOk THEN AfterCatch(p)
                                            ELSE "rejected"),
                      !.activeRequests = @ - 1]]
    /\ UNCHANGED evalVars

\* Promise.allSettled(scenePromises) resolves
processScenesReturn ==
    /\ aggregate = "running"
    /\ UnitsIn(units, SettledPositions) = MaxScenes
    /\ side' = [Side EXCEPT !.limiter =
                  [limiter EXCEPT !.aggregate = "returned"]]
    /\ UNCHANGED evalVars

\* ------------------------------------------------------ the mixing check
\* the units that hold checkAndTriggerMixing's guard
GuardPositions == {"mixFind", "mixSkip", "mixStart", "mixing", "mixEnd"}

\* the AudioSegment rows whose status is not completed: pending or failed
\* (a rejected unit's row is one or the other)
NotCompletedPositions == {"synth", "catchPending", "doneFailed", "rejected"}

\* completedSegments.length === segments.length; the caller's row exists,
\* so segments.length > 0
SegmentsAllCompleted(u) == UnitsIn(u, NotCompletedPositions) = 0

\* generateDynamicImageShots resolves: the shots of the scene are requested
generateDynamicImageShots ==
    /\ units["shots"] > 0
    /\ side' = [Side EXCEPT !.limiter =
                  [limiter EXCEPT !.units = MoveUnit("shots", "mixCheck")]]
    /\ UNCHANGED evalVars

\* checkAndTriggerMixing, entry: with the story in mixingChecks the call
\* returns and the unit is done; otherwise the story is added and findMany
\* is issued
checkAndTriggerMixingGuard ==
    /\ units["mixCheck"] > 0
    /\ side' = [Side EXCEPT !.limiter =
                  IF STORY \in limiter.mixingChecks
                  THEN [limiter EXCEPT
                          !.units = MoveUnit("mixCheck", "doneCompleted"),
                          !.activeRequests = @ - 1]
                  ELSE [limiter EXCEPT
                          !.units = MoveUnit("mixCheck", "mixFind"),
                          !.mixingChecks = @ \cup {STORY}]]
    /\ UNCHANGED evalVars

\* checkAndTriggerMixing: the database runs audioSegment.findMany
checkAndTriggerMixingFind ==
    /\ units["mixFind"] > 0
    /\ side' = [Side EXCEPT !.limiter =
                  [limiter EXCEPT !.units =
                      MoveUnit("mixFind", IF SegmentsAllCompleted(units)
                                          THEN "mixStart" ELSE "mixSkip")]]
    /\ UNCHANGED evalVars

\* checkAndTriggerMixing: some segment was not completed; finally deletes the
\* story from mixingChecks and the unit is done
checkAndTriggerMixingSkip ==
    /\ units["mixSkip"] > 0
    /\ side' = [Side EXCEPT !.limiter =
                  [limiter EXCEPT
                      !.units = MoveUnit("mixSkip", "doneCompleted"),
                      !.mixingChecks = @ \ {STORY},
                      !.activeRequests = @ - 1]]
    /\ UNCHANGED evalVars

\* checkAndTriggerMixing: every segment read was completed; the story is
\* set to audio_ready and mixAudioSegments is called
checkAndTriggerMixingStart ==
    /\ units["mixStart"] > 0
    /\ side' = [Side EXCEPT !.limiter =
                  [limiter EXCEPT
                      !.units = MoveUnit("mixStart", "mixing"),
                      !.story = "audio_ready"]]
    /\ UNCHANGED evalVars

\* mixAudioSegments stores the final audio with status audio_completed
mixAudioSegmentsStore ==
    /\ units["mixing"] > 0
    /\ side' = [Side EXCEPT !.limiter =
                  [limiter EXCEPT
                      !.units = MoveUnit("mixing", "mixEnd"),
                      !.story = "audio_completed",
                      !.mixed = TRUE]]
    /\ UNCHANGED evalVars

\* mixAudioSegments returns; finally deletes the story from mixingChecks and
\* the unit is done
checkAndTriggerMixingFinally ==
    /\ units["mixEnd"] > 0
    /\ side' = [Side EXCEPT !.limiter =
                  [limiter EXCEPT
                      !.units = MoveUnit("mixEnd", "doneCompleted"),
                      !.mixingChecks = @ \ {STORY},
                      !.activeRequests = @ - 1]]
    /\ UNCHANGED evalVars

\* ------------------------------------------------ one shot and its webhooks
\* generateImageForShot: OpenAI accepts the background request
generateImageForShotRequest(i) ==
    /\ i \notin DOMAIN shot
    /\ side' = [Side EXCEPT !.shot =
               [j \in DOMAIN shot \cup {i} |->
                 IF j = i THEN [NoShot EXCEPT !.job = "running"] ELSE shot[j]]]
    /\ UNCHANGED evalVars

\* generateImageForShot: the Image row is created with status processing
generateImageForShotRow(i) ==
    /\ Shot(i).job # "none"
    /\ Shot(i).row = "none"
    /\ side' = [Side EXCEPT !.shot =
               [shot EXCEPT ![i].row = "processing"]]
    /\ UNCHANGED evalVars

\* generateImageForShot: the Response row is created
generateImageForShotTrack(i) ==
    /\ Shot(i).row # "none"
    /\ ~Shot(i).response
    /\ side' = [Side EXCEPT !.shot =
               [shot EXCEPT ![i].response = TRUE]]
    /\ UNCHANGED evalVars

\* the event OpenAI sends for a response that ended
EventOf(j) == IF j = "succeeded" THEN "response.completed" ELSE "response.failed"

\* the background response ends and OpenAI sends its event
shotJobEnds(i, ok) ==
    /\ Shot(i).job = "running"
    /\ Shot(i).hook = "none"
    /\ Shot(i).sent < MaxDeliveries
    /\ LET j == IF ok THEN "succeeded" ELSE "failed"
       IN  side' = [Side EXCEPT !.shot =
                   [shot EXCEPT ![i].job = j,
                                ![i].hook = EventOf(j),
                                ![i].sent = @ + 1]]
    /\ UNCHANGED evalVars

\* OpenAI delivers the event of an ended response once more
redeliverWebhook(i) ==
    /\ Shot(i).job \in {"succeeded", "failed"}
    /\ Shot(i).hook = "none"
    /\ Shot(i).sent < MaxDeliveries
    /\ side' = [Side EXCEPT !.shot =
               [shot EXCEPT ![i].hook = EventOf(shot[i].job),
                            ![i].sent = @ + 1]]
    /\ UNCHANGED evalVars

\* processImagesForStory: an operator replays response.completed for an
\* Image row that has a response id and no image_url
processImagesForStory(i) ==
    /\ Shot(i).row \in {"processing", "failed"}
    /\ Shot(i).hook = "none"
    /\ Shot(i).handler = "idle"
    /\ Shot(i).sent < MaxDeliveries
    /\ side' = [Side EXCEPT !.shot =
               [shot EXCEPT ![i].hook = "response.completed",
                            ![i].sent = @ + 1]]
    /\ UNCHANGED evalVars

\* handleWebhook: an event other than response.completed, or one whose
\* Response row does not exist, is ignored
handleWebhook(i) ==
    /\ Shot(i).hook # "none"
    /\ Shot(i).handler = "idle"
    /\ side' = [Side EXCEPT !.shot =
               [shot EXCEPT
                   ![i].hook = "none",
                   ![i].handler =
                       IF shot[i].hook # "response.completed" THEN "idle"
                       ELSE IF ~shot[i].response THEN "idle"
                       ELSE "getResponse"]]
    /\ UNCHANGED evalVars

\* getOpenAIResponse; ok = FALSE: the request fails and handleWebhook rethrows
getOpenAIResponse(i, ok) ==
    /\ Shot(i).handler = "getResponse"
    /\ side' = [Side EXCEPT !.shot =
               [shot EXCEPT ![i].handler = IF ok THEN "process" ELSE "idle"]]
    /\ UNCHANGED evalVars

\* ImageService.handleImageCompletion, try block: the response holds an image
\* only if the generation succeeded; ok = FALSE: processing or upload fails
handleImageCompletionTry(i, ok) ==
    /\ Shot(i).handler = "process"
    /\ side' = [Side EXCEPT !.shot =
               IF shot[i].job = "succeeded" /\ ok
               THEN [shot EXCEPT ![i].row = "completed", ![i].handler = "idle"]
               ELSE [shot EXCEPT ![i].handler = "catch"]]
    /\ UNCHANGED evalVars

\* ImageService.handleImageCompletion, catch block: the row is marked failed
handleImageCompletionCatch(i) ==
    /\ Shot(i).handler = "catch"
    /\ side' = [Side EXCEPT !.shot =
               [shot EXCEPT ![i].row = "failed", ![i].handler = "idle"]]
    /\ UNCHANGED evalVars

\* ------------------------------------------------------------ the anchors
\* the anchors that need a reference image
NeededAnchors(app) == {a \in DOMAIN app : app[a] >= ANCHOR_MIN_APPEARANCES}

\* checkAndTriggerAudioGeneration going on as soon as one anchor is completed
AnchorsComplete_Any(app, status) ==
    \E a \in NeededAnchors(app) : status[a] = "completed"

\* checkAndTriggerAudioGeneration: completedAnchors is not below
\* requiredAnchors
AnchorsComplete(app, status) ==
    ~(Cardinality({a \in NeededAnchors(app) : status[a] = "completed"})
        < Cardinality(NeededAnchors(app)))

\* storeAnchors: one row per character and setting of the script; then
\* generateAnchorImages is started
storeAnchors(app) ==
    /\ anchor.script = "storeAnchors"
    /\ side' = [Side EXCEPT !.anchor =
                 [anchor EXCEPT
                     !.script = "countAnchors",
                     !.gen = "running",
                     !.rows = [a \in Anchors |->
                                 [appearances |-> app[a],
                                  status |-> IF app[a] >= ANCHOR_MIN_APPEARANCES
                                             THEN "pending" ELSE "not_needed",
                                  hook |-> "none",
                                  handler |-> "idle"]]]]
    /\ UNCHANGED evalVars

\* handleScriptCompletion: with no needed anchor generateAudioForStory is
\* started at once, otherwise the handler returns
handleScriptCompletionCount ==
    /\ anchor.script = "countAnchors"
    /\ side' = [Side EXCEPT !.anchor =
                 [anchor EXCEPT
                     !.script = "done",
                     !.audioStarts =
                         IF Cardinality(NeededAnchors(anchorAppearances)) = 0
                         THEN @ + 1 ELSE @]]
    /\ UNCHANGED evalVars

\* generateAnchorImage for the next pending anchor; ok = FALSE: the request
\* or an update fails, the anchor is marked failed and the loop is left
generateAnchorImage(a, ok) ==
    /\ anchor.gen = "running"
    /\ a \in NeededAnchors(anchorAppearances)
    /\ anchorStatus[a] = "pending"
    /\ side' = [Side EXCEPT !.anchor =
                 [anchor EXCEPT
                     !.rows[a].status = IF ok THEN "processing" ELSE "failed",
                     !.gen = IF ok THEN @ ELSE "stopped"]]
    /\ UNCHANGED evalVars

\* OpenAI sends response.completed for the anchor image
anchorJobEnds(a) ==
    /\ a \in DOMAIN anchor.rows
    /\ anchorStatus[a] = "processing"
    /\ anchor.rows[a].hook = "none"
    /\ side' = [Side EXCEPT !.anchor =
                 [anchor EXCEPT !.rows[a].hook = "sent"]]
    /\ UNCHANGED evalVars

\* handleAnchorCompletion: the anchor is marked completed; dbOk = FALSE: the
\* update is rejected and the catch block marks it failed
handleAnchorCompletion(a, dbOk) ==
    /\ a \in DOMAIN anchor.rows
    /\ anchor.rows[a].hook = "sent"
    /\ anchor.rows[a].handler = "idle"
    /\ side' = [Side EXCEPT !.anchor =
                 [anchor EXCEPT
                     !.rows[a].hook = "handled",
                     !.rows[a].status = IF dbOk THEN "completed" ELSE "failed",
                     !.rows[a].handler = IF dbOk THEN "count" ELSE "idle"]]
    /\ UNCHANGED evalVars

\* checkAndTriggerAudioGeneration: the two counts
checkAndTriggerAudioGeneration(a) ==
    /\ a \in DOMAIN anchor.rows
    /\ anchor.rows[a].handler = "count"
    /\ side' = [Side EXCEPT !.anchor =
                 [anchor EXCEPT
                     !.rows[a].handler =
                         IF AnchorsComplete(anchorAppearances, anchorStatus)
                         THEN "findStory" ELSE "idle"]]
    /\ UNCHANGED evalVars

\* checkAndTriggerAudioGeneration: the story is read and, if its status is
\* still script_completed, generateAudioForStory is started
checkAndTriggerAudioGenerationStart(a) ==
    /\ a \in DOMAIN anchor.rows
    /\ anchor.rows[a].handler = "findStory"
    /\ side' = [Side EXCEPT !.anchor =
                 [anchor EXCEPT
                     !.rows[a].handler = "idle",
                     !.audioStarts = IF storyStatus = "script_completed"
                                     THEN @ + 1 ELSE @]]
    /\ UNCHANGED evalVars

\* ------------------------------------------- the Evaluator, several stories
\* prisma.story.findUnique returning null
NoRow == [status |-> "none", ready |-> FALSE, video |-> FALSE]

\* the Story row of s: its status, whether its images and music pass their
\* gates, whether a video generation was started for it
Row(s) == IF s \in DOMAIN entry.rows THEN entry.rows[s] ELSE NoRow

\* the rows once the row of s is r
SetRow(s, r) ==
    [x \in DOMAIN entry.rows \cup {s} |-> IF x = s THEN r ELSE entry.rows[x]]

\* a slot no invocation occupies
NoEval ==
    [story |-> "none", pc |-> "idle", outcome |-> "none",
     wrote |-> FALSE, fired |-> FALSE, rejected |-> FALSE]

\* the invocation in slot i
Eval(i) == IF i \in DOMAIN entry.evals THEN entry.evals[i] ELSE NoEval

\* the invocations once slot i holds e
SetEval(i, e) == [j \in Slots |-> IF j = i THEN e ELSE Eval(j)]

\* the invocations past the guard for story s
EvalsOf(s) == {i \in Slots : Eval(i).pc # "idle" /\ Eval(i).story = s}

FreeSlots == {i \in Slots : Eval(i).pc = "idle"}

\* a guard that is not keyed by story
GuardHeldFor_AnyStory(checks, s) == checks # {}

\* completionChecks.has(storyId)
GuardHeldFor(checks, s) == s \in checks

\* a lookup that never reports a missing story
StoryMissing_Never(row) == FALSE

\* !story
StoryMissing(row) == row.status = "none"

\* the short-circuit left out
AlreadyCompletedFor_Never(row) == FALSE

\* story.status === 'completed'
AlreadyCompletedFor(row) == AlreadyCompleted(row.status)

\* StoryService.generateStory
generateStory(s) ==
    /\ s \in Stories
    /\ s \notin DOMAIN entry.rows
    /\ side' = [Side EXCEPT !.entry =
                  [entry EXCEPT !.rows =
                      SetRow(s, [NoRow EXCEPT !.status = "pending"])]]
    /\ UNCHANGED evalVars

\* the images and the music of story s are completed
componentsReady(s) ==
    /\ s \in DOMAIN entry.rows
    /\ ~Row(s).ready
    /\ side' = [Side EXCEPT !.entry =
                  [entry EXCEPT !.rows = SetRow(s, [Row(s) EXCEPT !.ready = TRUE])]]
    /\ UNCHANGED evalVars

\* mixAudioSegments stores the final audio of story s
mixAudioSegmentsFor(s) ==
    /\ Row(s).status = "pending"
    /\ side' = [Side EXCEPT !.entry =
                  [entry EXCEPT !.rows =
                      SetRow(s, [Row(s) EXCEPT !.status = "audio_completed"])]]
    /\ UNCHANGED evalVars

\* generateVideo and handleCloudflareVideoReady for story s
handleCloudflareVideoReadyFor(s) ==
    /\ Row(s).video
    /\ Row(s).status # "completed"
    /\ side' = [Side EXCEPT !.entry =
                  [entry EXCEPT !.rows =
                      SetRow(s, [Row(s) EXCEPT !.status = "completed"])]]
    /\ UNCHANGED evalVars

\* checkStoryCompletion(s) that never removes the id after an error
returnFor_KeepOnError(i) ==
    /\ Eval(i).pc = "finally"
    /\ side' = [Side EXCEPT !.entry =
                  [entry EXCEPT
                      !.checks = IF Eval(i).outcome = "threw" THEN @
                                 ELSE @ \ {Eval(i).story},
                      !.evals = SetEval(i, NoEval)]]
    /\ UNCHANGED evalVars

\* checkStoryCompletion(s), entry: the invocation returns at once when the id
\* is in the set, otherwise it adds the id and goes on
checkStoryCompletionFor(s) ==
    /\ s \in StoryIds
    /\ IF GuardHeldFor(entry.checks, s)
       THEN side' = [Side EXCEPT !.entry =
                       [entry EXCEPT !.evals =
                           [j \in Slots |->
                              IF j \in EvalsOf(s)
                              THEN [Eval(j) EXCEPT !.rejected = TRUE]
                              ELSE Eval(j)]]]
       ELSE /\ FreeSlots # {}
            /\ LET i == CHOOSE x \in FreeSlots : \A y \in FreeSlots : x <= y
               IN side' = [Side EXCEPT !.entry =
                             [entry EXCEPT
                                 !.checks = @ \cup {s},
                                 !.evals = SetEval(i, [NoEval EXCEPT
                                                         !.story = s,
                                                         !.pc = "findStory"])]]
    /\ UNCHANGED evalVars

\* prisma.story.findUnique, the missing story, the short-circuit
findStoryFor(i, dbOk) ==
    /\ Eval(i).pc = "findStory"
    /\ LET row == Row(Eval(i).story)
           how == IF ~dbOk THEN "threw"
                  ELSE IF StoryMissing(row) THEN "storyMissing"
                  ELSE IF AlreadyCompletedFor(row) THEN "alreadyCompleted"
                  ELSE "none"
       IN side' = [Side EXCEPT !.entry =
                     [entry EXCEPT !.evals =
                         SetEval(i, [Eval(i) EXCEPT
                                       !.pc = IF how = "none" THEN "gates"
                                              ELSE "finally",
                                       !.outcome = how])]]
    /\ UNCHANGED evalVars

\* the three gates; a rejected query counts as not ready
gatesFor(i, dbOk) ==
    /\ Eval(i).pc = "gates"
    /\ LET row == Row(Eval(i).story)
           pass == dbOk /\ row.status = "audio_completed" /\ row.ready
       IN side' = [Side EXCEPT !.entry =
                     [entry EXCEPT !.evals =
                         SetEval(i, [Eval(i) EXCEPT
                                       !.pc = IF pass THEN "mark" ELSE "finally",
                                       !.outcome = IF pass THEN "none"
                                                   ELSE "notReady"])]]
    /\ UNCHANGED evalVars

\* markStoryCompleted: the update, or its error rethrown
markStoryCompletedFor(i, dbOk) ==
    /\ Eval(i).pc = "mark"
    /\ LET s == Eval(i).story
       IN side' = [Side EXCEPT !.entry =
                     IF dbOk /\ s \in DOMAIN entry.rows
                     THEN [entry EXCEPT
                             !.rows = SetRow(s, [Row(s) EXCEPT
                                                   !.status = ReadyMarker]),
                             !.evals = SetEval(i, [Eval(i) EXCEPT
                                                     !.pc = "trigger",
                                                     !.wrote = TRUE])]
                     ELSE [entry EXCEPT
                             !.evals = SetEval(i, [Eval(i) EXCEPT
                                                     !.pc = "finally",
                                                     !.outcome = "threw"])]]
    /\ UNCHANGED evalVars

\* triggerNextPhase: generateVideo is started for the story
triggerNextPhaseFor(i) ==
    /\ Eval(i).pc = "trigger"
    /\ LET s == Eval(i).story
       IN side' = [Side EXCEPT !.entry =
                     [entry EXCEPT
                         !.rows = SetRow(s, [Row(s) EXCEPT !.video = TRUE]),
                         !.evals = SetEval(i, [Eval(i) EXCEPT
                                                 !.pc = "finally",
                                                 !.outcome = "completed",
                                                 !.fired = TRUE])]]
    /\ UNCHANGED evalVars

\* finally: completionChecks.delete(storyId), and the invocation returns or
\* rejects
returnFor(i) ==
    /\ Eval(i).pc = "finally"
    /\ side' = [Side EXCEPT !.entry =
                  [entry EXCEPT !.checks = @ \ {Eval(i).story},
                                !.evals = SetEval(i, NoEval)]]
    /\ UNCHANGED evalVars

\* ------------------------------------------------------------ specification
Next ==
    \/ generateImageForShot
    \/ handleImageCompletion
    \/ handleImageCompletionError
    \/ generateMusic
    \/ checkAndTriggerMixing
    \/ mixAudioSegments
    \/ mixAudioSegmentsError
    \/ audioGenerationFinished
    \/ generateVideo
    \/ generateVideoError
    \/ handleCloudflareVideoReady
    \/ \E k \in Callers : CheckStoryCompletion(k)
    \/ \E c \in Calls, dbOk \in BOOLEAN : EvalFindStory(c, dbOk)
    \/ \E c \in Calls, dbOk \in BOOLEAN : EvalCheckAudio(c, dbOk)
    \/ \E c \in Calls, dbOk \in BOOLEAN : EvalCheckImages(c, dbOk)
    \/ \E c \in Calls, dbOk \in BOOLEAN : EvalCheckMusic(c, dbOk)
    \/ \E c \in Calls, dbOk \in BOOLEAN : markStoryCompleted(c, dbOk)
    \/ \E c \in Calls : triggerNextPhase(c)
    \/ \E c \in Calls : EvalFinally(c)

Spec == Init /\ [][Next]_vars

\* the same program when no registry query or update is rejected
NextNoFault ==
    \/ generateImageForShot
    \/ handleImageCompletion
    \/ handleImageCompletionError
    \/ generateMusic
    \/ checkAndTriggerMixing
    \/ mixAudioSegments
    \/ mixAudioSegmentsError
    \/ audioGenerationFinished
    \/ generateVideo
    \/ generateVideoError
    \/ handleCloudflareVideoReady
    \/ \E k \in Callers : CheckStoryCompletion(k)
    \/ \E c \in Calls : EvalFindStory(c, TRUE)
    \/ \E c \in Calls : EvalCheckAudio(c, TRUE)
    \/ \E c \in Calls : EvalCheckImages(c, TRUE)
    \/ \E c \in Calls : EvalCheckMusic(c, TRUE)
    \/ \E c \in Calls : markStoryCompleted(c, TRUE)
    \/ \E c \in Calls : triggerNextPhase(c)
    \/ \E c \in Calls : EvalFinally(c)

SpecNoFault == Init /\ [][NextNoFault]_vars

\* processScenesWithConcurrency on a script of MaxScenes scenes
NextLimiter ==
    \/ processScenesWithConcurrency
    \/ processScene
    \/ \E ok \in BOOLEAN : generateAudioForSceneCreate(ok)
    \/ \E ok \in BOOLEAN : generateAudioForSceneSynth(ok)
    \/ \E ok \in BOOLEAN : generateAudioForSceneShots(ok)
    \/ \E p \in UnitPositions, dbOk \in BOOLEAN : processSceneCatch(p, dbOk)
    \/ processScenesReturn

SpecLimiter == Init /\ [][NextLimiter]_vars

\* every pending timer fires and every external call ends
SpecLimiterFair == SpecLimiter /\ WF_vars(NextLimiter)

\* processScenesWithConcurrency when every call of every scene succeeds, with
\* the mixing check of each scene
NextMixing ==
    \/ processScenesWithConcurrency
    \/ processScene
    \/ generateAudioForSceneCreate(TRUE)
    \/ generateAudioForSceneSynth(TRUE)
    \/ generateDynamicImageShots
    \/ checkAndTriggerMixingGuard
    \/ checkAndTriggerMixingFind
    \/ checkAndTriggerMixingSkip
    \/ checkAndTriggerMixingStart
    \/ mixAudioSegmentsStore
    \/ checkAndTriggerMixingFinally
    \/ processScenesReturn

SpecMixing == Init /\ [][NextMixing]_vars

\* every pending timer fires, every external call and query ends
SpecMixingFair == SpecMixing /\ WF_vars(NextMixing)

\* what the service and OpenAI do for shot i without an operator
ShotAuto(i) ==
    \/ generateImageForShotRow(i)
    \/ generateImageForShotTrack(i)
    \/ \E ok \in BOOLEAN : shotJobEnds(i, ok)
    \/ handleWebhook(i)
    \/ \E ok \in BOOLEAN : getOpenAIResponse(i, ok)
    \/ \E ok \in BOOLEAN : handleImageCompletionTry(i, ok)
    \/ handleImageCompletionCatch(i)

\* the shots of a story, from request to webhook handling
NextShots ==
    \/ \E i \in Shots : generateImageForShotRequest(i)
    \/ \E i \in Shots : generateImageForShotRow(i)
    \/ \E i \in Shots : generateImageForShotTrack(i)
    \/ \E i \in Shots, ok \in BOOLEAN : shotJobEnds(i, ok)
    \/ \E i \in Shots : redeliverWebhook(i)
    \/ \E i \in Shots : processImagesForStory(i)
    \/ \E i \in Shots : handleWebhook(i)
    \/ \E i \in Shots, ok \in BOOLEAN : getOpenAIResponse(i, ok)
    \/ \E i \in Shots, ok \in BOOLEAN : handleImageCompletionTry(i, ok)
    \/ \E i \in Shots : handleImageCompletionCatch(i)

SpecShots == Init /\ [][NextShots]_vars

\* every request, response and webhook handler runs to its end; the operator
\* and redeliveries are under no obligation
SpecShotsFair == SpecShots /\ \A i \in Shots : WF_vars(ShotAuto(i))

\* handleScriptCompletion from storeAnchors on, and the anchor webhooks
NextAnchors ==
    \/ \E app \in [Anchors -> 1..MaxAppearances] : storeAnchors(app)
    \/ handleScriptCompletionCount
    \/ \E a \in Anchors, ok \in BOOLEAN : generateAnchorImage(a, ok)
    \/ \E a \in Anchors : anchorJobEnds(a)
    \/ \E a \in Anchors, dbOk \in BOOLEAN : handleAnchorCompletion(a, dbOk)
    \/ \E a \in Anchors : checkAndTriggerAudioGeneration(a)
    \/ \E a \in Anchors : checkAndTriggerAudioGenerationStart(a)

SpecAnchors == Init /\ [][NextAnchors]_vars

\* checkStoryCompletion called for two stories and for an unknown identifier
NextStories ==
    \/ \E s \in Stories : generateStory(s)
    \/ \E s \in Stories : componentsReady(s)
    \/ \E s \in Stories : mixAudioSegmentsFor(s)
    \/ \E s \in Stories : handleCloudflareVideoReadyFor(s)
    \/ \E s \in StoryIds : checkStoryCompletionFor(s)
    \/ \E i \in Slots, dbOk \in BOOLEAN : findStoryFor(i, dbOk)
    \/ \E i \in Slots, dbOk \in BOOLEAN : gatesFor(i, dbOk)
    \/ \E i \in Slots, dbOk \in BOOLEAN : markStoryCompletedFor(i, dbOk)
    \/ \E i \in Slots : triggerNextPhaseFor(i)
    \/ \E i \in Slots : returnFor(i)

SpecStories == Init /\ [][NextStories]_vars

TypeOK ==
    /\ storyStatus \in {"script_completed", "audio_ready", "audio_completed",
                        "audio_failed", "do_completed", "completed"}
    /\ storyAudioUrl \in BOOLEAN
    /\ \A s \in ImageStatuses : images[s] \in 0..MaxImages
    /\ CountIn(images, ImageStatuses) <= MaxImages
    /\ music \in {NoMusic, [status |-> "completed", audio_url |-> TRUE]}
    /\ completionChecks \subseteq {STORY}
    /\ Pending <= MaxPending
    /\ triggerCount >= markCount - 1

\* ------------------------------------------------------------------ claims
NotReadyOutcomes ==
    {"audioNotReady", "imagesInProgress", "imagesBelowThreshold",
     "musicNotReady"}

Total == CountIn(images, ImageStatuses)

\* the image population is acceptable: something was dispatched, every image
\* is terminal and at least 90% are completed
ImagesAcceptable ==
    /\ Total > 0
    /\ ~ImagesInFlight(images)
    /\ images["completed"] * 100 >= MIN_IMAGE_SUCCESS_RATE * Total

AudioReady == storyAudioUrl /\ storyStatus = "audio_completed"

MusicReady == music.status = "completed" /\ music.audio_url

\* C1: the phase trigger is invoked at most once for the story.
C1_TriggerAtMostOnce == triggerCount <= 1

\* C2: of the invocations that overlap one evaluation, at most one writes the
\* status and at most one fires the trigger; the one that passed every gate
\* does both, and the invocations the guard turned away do neither.
C2_SimultaneousOnce ==
    /\ Cardinality({c \in Calls : call[c].wrote}) <= 1
    /\ Cardinality({c \in Calls : call[c].fired}) <= 1
    /\ \A c \in Calls :
         call[c].outcome = "completed" => call[c].wrote /\ call[c].fired

\* an evaluation has marked and fired while another invocation was turned
\* away by the guard
C2_Witness ==
    \E c \in Calls : call[c].fired /\ call[c].wrote /\ call[c].rejected

\* C3: an evaluation started after the Evaluator marked the story ready
\* writes no status and fires no trigger.
C3_NoOpAfterReady ==
    \A c \in Calls : call[c].afterMark => ~call[c].wrote /\ ~call[c].fired

\* C4: an evaluation that read the image table while some image was not
\* terminal neither advances the status nor fires the trigger.
C4_NoAdvanceWhileInFlight ==
    \A c \in Calls :
        call[c].sawInFlight =>
            /\ call[c].pc \notin {"mark", "trigger"}
            /\ ~call[c].wrote
            /\ ~call[c].fired

\* C5: checkImagesCompletion reports acceptable exactly when total > 0, no
\* image is non-terminal and completed/total >= 0.90.
C5_AcceptableIff ==
    checkImagesCompletion(images, TRUE).acceptable <=> ImagesAcceptable

\* C6: when every callback has updated its row and invoked the check, all
\* evaluations have returned and the story is ready, the trigger has fired.
C6_ReadyIsTriggered ==
    ( /\ audioPhase = "finished"
      /\ Pending = 0
      /\ InFlightCalls = {}
      /\ images["failed"] = 0
      /\ AudioReady /\ MusicReady /\ ImagesAcceptable )
    => triggerCount >= 1

\* C7: no evaluation ends by rethrowing an error to its caller.
C7_NeverThrows == \A c \in Calls : call[c].outcome # "threw"

\* C8: a step in which an evaluation finds a gate not passed changes neither
\* the story nor any job row and starts no video generation.
C8_NotReadyIsNoOp ==
    [][\A c \in Calls :
         ( /\ call[c].pc # "finally"
           /\ call'[c].pc = "finally"
           /\ call'[c].outcome \in NotReadyOutcomes )
         => /\ UNCHANGED <<storyStatus, storyAudioUrl, images, music,
                           triggerCount, markCount, videoJobs, cloudflareId>>
            /\ ~call'[c].wrote
            /\ ~call'[c].fired]_vars

\* an evaluation has returned not ready
C8_Witness ==
    \E c \in Calls :
        call[c].pc = "finally" /\ call[c].outcome \in NotReadyOutcomes

C10_GatesBeforeAdvance ==
    \A c \in Calls :
        (call[c].pc \in {"mark", "trigger"} \/ call[c].wrote \/ call[c].fired)
        => call[c].sawAudio /\ call[c].sawMusic

\* an evaluation has fired after reading both gates true
C10_Witness ==
    \E c \in Calls : call[c].fired /\ call[c].sawAudio /\ call[c].sawMusic

\* C11: while the story has no Image row, checkImagesCompletion reports
\* acceptable = FALSE and allAttempted = FALSE with total 0, and no evaluation
\* gets past the image gate, marks the story or fires the trigger.
C11_ZeroImagesNeverAdvance ==
    Total = 0 =>
        /\ checkImagesCompletion(images, TRUE) = NotReadyResult
        /\ markCount = 0
        /\ triggerCount = 0
        /\ \A c \in Calls : call[c].pc \notin {"checkMusic", "mark", "trigger"}

\* an evaluation passed the audio gate and returned at the image gate of a
\* story with no Image row
C11_Witness ==
    /\ Total = 0
    /\ \E c \in Calls :
          call[c].pc = "finally" /\ call[c].outcome = "imagesInProgress"

\* position of a status on the path pending -> processing ->
\* script_completed -> audio_ready -> audio_completed -> do_completed ->
\* completed; -1 for a status off the path
StatusRank(s) ==
    CASE s = "pending"          -> 0
      [] s = "processing"       -> 1
      [] s = "script_completed" -> 2
      [] s = "audio_ready"      -> 3
      [] s = "audio_completed"  -> 4
      [] s = "do_completed"     -> 5
      [] s = "completed"        -> 6
      [] OTHER                  -> -1

\* C12: no step replaces a status of the path by an earlier status of the
\* path.
C12_StatusOnlyAdvances ==
    [][(StatusRank(storyStatus) >= 0 /\ StatusRank(storyStatus') >= 0)
         => StatusRank(storyStatus') >= StatusRank(storyStatus)]_vars

\* C13: once the status is audio_failed, no step changes it.
C13_FailedIsTerminal ==
    [][storyStatus = "audio_failed" => storyStatus' = "audio_failed"]_vars

\* C18: the trigger step starts generateVideo and goes on to return with
\* outcome completed; the evaluation that fired can return and release the
\* guard whatever the state of the video job; and a step that ends a video
\* job changes no evaluation, leaves the guard and the mark alone and
\* changes the status, if at all, only to do_completed.
C18_TriggerIsFireAndForget ==
    [][/\ \A c \in Calls :
            /\ (call[c].pc = "trigger" /\ call'[c].pc # "trigger")
                 => /\ call'[c].pc = "finally"
                    /\ call'[c].outcome = "completed"
                    /\ videoJobs' = videoJobs + 1
            /\ (call[c].pc = "finally" /\ call[c].fired)
                 => ENABLED EvalFinally(c)
            /\ (call[c].pc = "finally" /\ call[c].fired /\ call'[c].pc # "finally")
                 => /\ call'[c] = IdleCall
                    /\ STORY \notin completionChecks'
       /\ videoJobs' < videoJobs
            => /\ call' = call
               /\ completionChecks' = completionChecks
               /\ markCount' = markCount
               /\ storyStatus' \in {storyStatus, "do_completed"}]_vars

\* the evaluation that fired has returned and released the guard, the video
\* generation it started then failed, and the status is still the ready marker
C18_Witness ==
    /\ triggerCount = 1
    /\ markCount = 1
    /\ videoJobs = 0
    /\ InFlightCalls = {}
    /\ completionChecks = {}
    /\ storyStatus = ReadyMarker
    /\ cloudflareId = "none"
    /\ audioPhase = "mixed"

\* C14: at every moment at most MAX_CONCURRENT_CALLS scene units are between
\* admission and completion, and activeRequests counts exactly those units.
C14_AtMostCapActive ==
    /\ UnitsIn(units, ActivePositions) <= MAX_CONCURRENT_CALLS
    /\ activeRequests = UnitsIn(units, ActivePositions)

\* the cap is reached while a unit is still polling for a slot
C14_Witness ==
    /\ UnitsIn(units, ActivePositions) = MAX_CONCURRENT_CALLS
    /\ units["waiting"] > 0

\* C15: no unit is dropped when another one throws, every unit that settled
\* has released its slot, processScenesWithConcurrency returns only when
\* every unit has settled, and it does return.
C15_SettleAll ==
    /\ [](aggregate # "idle" =>
            /\ UnitsIn(units, UnitPositions) = MaxScenes
            /\ activeRequests = UnitsIn(units, ActivePositions))
    /\ [](aggregate = "returned" =>
            UnitsIn(units, SettledPositions) = MaxScenes)
    /\ <>(aggregate = "returned")

\* the aggregate returned after 5 units threw and the others completed
C15_Witness ==
    /\ aggregate = "returned"
    /\ units["doneFailed"] + units["doneNoRow"] + units["rejected"] = 5
    /\ units["doneCompleted"] = MaxScenes - 5

\* C16: a unit that failed settles fulfilled with its AudioSegment row in
\* status failed: none settles rejected and none settles without a failed row.
C16_FailedUnitMarkedFailed ==
    [][\A p \in {"catchNoRow", "catchPending", "catchCompleted"} :
         units'[p] < units[p] => units'["doneFailed"] = units["doneFailed"] + 1]_vars

\* C17: every Image row created with status processing reaches completed or
\* failed.
C17_DispatchedShotsResolve ==
    \A i \in Shots :
        (shotRow(i) = "processing") ~> (shotRow(i) \in {"completed", "failed"})

\* C20: once an Image row is completed or failed, no step changes its status.
C20_OneTerminalMutation ==
    [][\A i \in Shots :
         shotRow(i) \in {"completed", "failed"} => shotRow(i)' = shotRow(i)]_vars

\* C19: generateAudioForStory, which alone requests shot images, has not
\* been started while an anchor with 2 or more appearances is not completed;
\* and with no such anchor handleScriptCompletion starts it when it counts.
C19_ShotsWaitForAnchors ==
    /\ [](audioStarts > 0 =>
            \A a \in NeededAnchors(anchorAppearances) :
                anchorStatus[a] = "completed")
    /\ [][(anchor.script = "countAnchors" /\ anchor'.script = "done")
            => (NeededAnchors(anchorAppearances) = {}
                  <=> audioStarts' = audioStarts + 1)]_vars

\* the audio generation started after two anchors were waited for, next to
\* an entity that appears once
C19_Witness ==
    /\ audioStarts > 0
    /\ Cardinality(NeededAnchors(anchorAppearances)) = 2
    /\ \E a \in DOMAIN anchorStatus : anchorStatus[a] = "not_needed"

\* C21: an AudioSegment row that has reached completed is never changed to
\* failed: no unit whose row is completed leaves the catch block of
\* processScene with its row marked failed.
C21_SegmentMutatedOnce ==
    [][units'["catchCompleted"] < units["catchCompleted"]
         => units'["doneFailed"] <= units["doneFailed"]]_vars

\* C22: the story holds a failed status only where the mixing failed, never
\* because of its images, and an evaluation that found the images below the
\* threshold returns having written no status and fired no trigger.
C22_BelowThresholdNeverFails ==
    /\ storyStatus = "audio_failed" => audioPhase = "mixFailed"
    /\ \A c \in Calls :
         call[c].outcome = "imagesBelowThreshold"
         => call[c].pc = "finally" /\ ~call[c].wrote /\ ~call[c].fired

\* every image is terminal, fewer than 90% are completed, an evaluation has
\* just returned at the threshold and the status is the one the mixing left
C22_Witness ==
    /\ Total > 0
    /\ ~ImagesInFlight(images)
    /\ ~ImagesAcceptable
    /\ storyStatus = "audio_completed"
    /\ markCount = 0
    /\ \E c \in Calls :
          call[c].pc = "finally" /\ call[c].outcome = "imagesBelowThreshold"

\* everything that belongs to story s: its row, its entry in the guard and
\* the invocations made for it
StoryView(s) ==
    <<Row(s), s \in entry.checks,
      [i \in Slots |-> IF Eval(i).story = s THEN Eval(i) ELSE NoEval]>>

\* the next step of the invocation in slot i
EvaluationStep(i) ==
    \/ \E dbOk \in BOOLEAN : findStoryFor(i, dbOk)
    \/ \E dbOk \in BOOLEAN : gatesFor(i, dbOk)
    \/ \E dbOk \in BOOLEAN : markStoryCompletedFor(i, dbOk)
    \/ triggerNextPhaseFor(i)
    \/ returnFor(i)

\* C23: an identifier is in the guard only while an evaluation of that very
\* story is in flight; an invocation for a story whose identifier is not in
\* the guard is admitted whatever the other stories do; an evaluation in
\* flight can always take its next step; and no step changes the row, the
\* guard entry or the invocations of two different stories.
C23_StoriesIndependent ==
    /\ [](\A s \in StoryIds : s \in entry.checks => EvalsOf(s) # {})
    /\ [](\A s \in StoryIds :
            (s \notin entry.checks /\ FreeSlots # {})
            => ENABLED (checkStoryCompletionFor(s) /\ s \in entry'.checks))
    /\ [](\A i \in Slots : Eval(i).pc # "idle" => ENABLED EvaluationStep(i))
    /\ [][\A a, b \in StoryIds :
            a # b => ~(StoryView(a)' # StoryView(a) /\ StoryView(b)' # StoryView(b))]_vars

\* the evaluation of s1 is failing while the evaluation of s2, admitted after
\* it, has written the ready marker
C23_Witness ==
    \E i, j \in Slots :
        /\ Eval(i).story = "s1" /\ Eval(i).outcome = "threw"
        /\ Eval(j).story = "s2" /\ Eval(j).pc = "trigger"
        /\ i < j

\* C24: an evaluation whose lookup does not fail and finds the status
\* completed goes straight to its return with outcome alreadyCompleted,
\* leaving every row alone; it has evaluated no gate, written no status and
\* fired no trigger.
C24_CompletedShortCircuit ==
    /\ [](\A i \in Slots :
            Eval(i).outcome = "alreadyCompleted"
            => Eval(i).pc = "finally" /\ ~Eval(i).wrote /\ ~Eval(i).fired)
    /\ [][\A i \in Slots :
            ( /\ Eval(i).pc = "findStory"
              /\ Row(Eval(i).story).status = "completed"
              /\ Eval(i)'.pc # "findStory" )
            => /\ Eval(i)'.pc = "finally"
               /\ Eval(i)'.outcome \in {"alreadyCompleted", "threw"}
               /\ entry'.rows = entry.rows]_vars

\* a story that was marked, triggered and completed is evaluated again and
\* the evaluation is returning from the short-circuit
C24_Witness ==
    \E i \in Slots :
        /\ Eval(i).pc = "finally"
        /\ Eval(i).outcome = "alreadyCompleted"
        /\ Row(Eval(i).story).video
        /\ Row(Eval(i).story).ready

\* C25: an evaluation whose lookup finds no story goes straight to its return
\* with outcome storyMissing: no row is created or changed, no status is
\* written, no trigger is fired, and when it returns the identifier is out of
\* the guard.
C25_MissingStoryReturns ==
    /\ [](\A i \in Slots :
            Eval(i).outcome = "storyMissing"
            => Eval(i).pc = "finally" /\ ~Eval(i).wrote /\ ~Eval(i).fired)
    /\ [][\A i \in Slots :
            /\ ( /\ Eval(i).pc = "findStory"
                 /\ Eval(i).story \notin DOMAIN entry.rows
                 /\ Eval(i)'.pc # "findStory" )
               => /\ Eval(i)'.pc = "finally"
                  /\ Eval(i)'.outcome \in {"storyMissing", "threw"}
                  /\ entry'.rows = entry.rows
            /\ ( Eval(i).outcome = "storyMissing" /\ Eval(i)'.pc # "finally" )
               => /\ Eval(i)' = NoEval
                  /\ Eval(i).story \notin entry'.checks
                  /\ entry'.rows = entry.rows]_vars

\* the unknown identifier was looked up, not found, and its evaluation is
\* about to return while its identifier is still in the guard
C25_Witness ==
    \E i \in Slots :
        /\ Eval(i).story = UnknownId
        /\ Eval(i).outcome = "storyMissing"
        /\ UnknownId \in entry.checks

\* C26: an identifier is in the guard exactly while one evaluation of it is
\* in flight; an invocation that finds its identifier in the guard changes
\* neither the guard nor any row and starts no evaluation; an identifier
\* leaves the guard only in the returning step of its evaluation, and every
\* evaluation that returns, whatever its outcome, takes its identifier out.
C26_GuardProtocol ==
    /\ [](\A s \in StoryIds :
            /\ s \in entry.checks <=> EvalsOf(s) # {}
            /\ Cardinality(EvalsOf(s)) <= 1)
    /\ [][\A s \in StoryIds :
            /\ (\E i \in EvalsOf(s) : ~Eval(i).rejected /\ Eval(i)'.rejected)
               => /\ entry'.checks = entry.checks
                  /\ entry'.rows = entry.rows
                  /\ \A j \in Slots : Eval(j)'.pc = Eval(j).pc
            /\ (s \in entry.checks /\ s \notin entry'.checks)
               => \E i \in EvalsOf(s) :
                     Eval(i).pc = "finally" /\ Eval(i)' = NoEval
            /\ \A i \in EvalsOf(s) :
                 (Eval(i).pc = "finally" /\ Eval(i)'.pc # "finally")
                 => s \notin entry'.checks /\ Eval(i)' = NoEval]_vars

\* an invocation was turned away while the evaluation holding the guard had
\* already failed and not yet returned
C26_Witness ==
    \E i \in Slots :
        /\ Eval(i).pc = "finally"
        /\ Eval(i).outcome = "threw"
        /\ Eval(i).rejected
        /\ Eval(i).story \in entry.checks

\* the AudioSegment rows with status completed
CompletedPositions ==
    {"shots", "catchCompleted", "doneCompleted"} \cup {"mixCheck"} \cup GuardPositions

\* C27: the step that sets the story to audio_ready and starts
\* mixAudioSegments is taken only when every scene of the script has an
\* AudioSegment row with status completed.
C27_MixingWaitsForAllScenes ==
    [][units'["mixing"] > units["mixing"]
         => UnitsIn(units, CompletedPositions) = MaxScenes]_vars

\* C28: when every call of every scene succeeds, the mixing is eventually
\* started.
C28_MixingEventuallyStarts ==
    (aggregate = "running") ~> (limiter.story # "script_completed")

\* C29: once a mixing has stored the final audio, no step sets the story to
\* audio_ready and no step starts mixAudioSegments again.
C29_MixingAtMostOnce ==
    [][limiter.mixed
         => /\ (limiter'.story = "audio_ready" => limiter.story = "audio_ready")
            /\ units'["mixing"] <= units["mixing"]]_vars

\* C30: generateAudioForStory is started at most once for the story, however
\* the handlers of the anchor webhooks interleave.
C30_AudioStartedOnce == audioStarts <= 1

\* C31: the story is set to audio_failed only by a mixing that failed
\* before the final audio was stored, never after mixAudioSegments has stored
\* the audio_url with status audio_completed.
C31_AudioFailedOnlyByMixing ==
    [][storyStatus' = "audio_failed" /\ storyStatus # "audio_failed"
         => audioPhase = "mixing" /\ ~storyAudioUrl]_vars

\* C32: within one evaluation the ready marker is written before the phase
\* trigger is invoked, and an evaluation whose status write failed does not
\* invoke the phase trigger.
C32_MarkBeforeTrigger ==
    \A c \in Calls :
        /\ call[c].pc = "trigger" => call[c].wrote /\ ~call[c].fired
        /\ call[c].fired => call[c].wrote
        /\ call[c].outcome = "threw" => ~call[c].fired

\* an evaluation wrote the marker and invoked the trigger, and a later one
\* passed every gate, failed to write and left without the trigger
C32_Witness ==
    /\ markCount > 0
    /\ triggerCount = markCount
    /\ \E c \in Calls :
         /\ call[c].pc = "finally"
         /\ call[c].outcome = "threw"
         /\ call[c].sawMusic
         /\ ~call[c].wrote
         /\ ~call[c].fired

\* C33: the status do_completed is written only by the end of a video
\* generation that the phase trigger started, after the marker was written; a
\* generation that ends without that write writes no status; the Cloudflare
\* id is stored only by a generation that wrote do_completed; and the status
\* completed is written only for a story whose Cloudflare id was stored.
C33_VideoProvenance ==
    [][/\ (storyStatus' = "do_completed" /\ storyStatus # "do_completed"
            => /\ videoJobs' = videoJobs - 1
               /\ triggerCount > 0
               /\ markCount > 0)
       /\ (videoJobs' < videoJobs
            => storyStatus' \in {storyStatus, "do_completed"})
       /\ (cloudflareId = "none" /\ cloudflareId' # "none"
            => storyStatus' = "do_completed" /\ videoJobs' = videoJobs - 1)
       /\ (storyStatus' = "completed" /\ storyStatus # "completed"
            => cloudflareId = "uploaded")]_vars

\* the webhook has marked completed a story whose video was generated after
\* the phase trigger
C33_Witness ==
    /\ storyStatus = "completed"
    /\ cloudflareId = "ready"
    /\ triggerCount > 0
    /\ markCount > 0

====
